---- MODULE Spec2Model ----
(***************************************************************************)
(* A model of pyop2/ir/ast_optimiser.py: the LoopOptimiser object, its     *)
(* loop-invariant code motion (licm) and its loop interchange.             *)
(*                                                                         *)
(* The tree the optimiser owns is kept structurally:                       *)
(*   pre      the children of the pre-header block; the item "Nest" is     *)
(*            the loop nest itself (self.loop_nest)                        *)
(*   loops    the live For nodes of the nest by tree position (1 is the    *)
(*            outermost); a node is identified by its position, its        *)
(*            header fields init, cond, incr, pragma are what interchange  *)
(*            rewrites                                                     *)
(*   inner    inner[p] are the children licm spliced at the front of the   *)
(*            body block of the loop at position p                         *)
(*   stmts    the children of the innermost block (self.block)             *)
(*   fors, decls, sym   the optimiser's tracked loop list (tree            *)
(*            positions), declaration table and symbol list                *)
(*   self_block, out_prods   the block the explorer recorded last (the     *)
(*            tree position of its loop) and the outer-product table       *)
(*                                                                         *)
(* A second object, of pyop2/sequential.py, is modelled on its own:        *)
(*   jit      a JITModule: obj maps the names of the attributes it holds   *)
(*            to their values, compiles counts the compilations completed  *)
(***************************************************************************)
EXTENDS Integers, Sequences, FiniteSets, TLC

\* Deepest loop nest the inputs are drawn from.
MaxDepth == 3

\* Number of calls (licm or interchange) made on one optimiser.
MaxCalls == 2

\* Number of calls (__init__, compile or __call__) made on one JITModule.
MaxJITCalls == 4

VARIABLES prog, pre, loops, inner, stmts, fors, decls, sym, self_block, out_prods,
          last, prev, calls, jit

vars == <<prog, pre, loops, inner, stmts, fors, decls, sym, self_block, out_prods,
          last, prev, calls, jit>>

---------------------------------------------------------------------------
\* Helpers on sequences.

Range(s) == {s[x] : x \in DOMAIN s}

Reverse(s) == [x \in 1..Len(s) |-> s[Len(s) + 1 - x]]

RECURSIVE SelectIdx(_, _, _)
\* The indices x >= from of s, in order, for which keep[x] holds.
SelectIdx(keep, from, to) ==
    IF from > to THEN <<>>
    ELSE (IF keep[from] THEN <<from>> ELSE <<>>) \o SelectIdx(keep, from + 1, to)

\* All orderings of a finite set.
Orders(S) == {o \in [1..Cardinality(S) -> S] : \A x, y \in DOMAIN o : x # y => o[x] # o[y]}

---------------------------------------------------------------------------
\* The tree data model (pyop2.ir.ast_base, used by the optimiser).

\* Symbol(name, rank) with a rank of iteration variables: the symbol depends on
\* the loops its rank names.
Symbol(name, rank) == [t |-> "Sym", name |-> name, rank |-> rank, loop_dep |-> rank]

\* Symbol(name, rank) with a rank of array sizes, as a declaration has it: the
\* symbol depends on no loop.
SizedSymbol(name, sizes) == [t |-> "Sym", name |-> name, rank |-> sizes, loop_dep |-> <<>>]

Par(c) == [t |-> "Par", c |-> c]

Prod(l, r) == [t |-> "Bin", op |-> "*", l |-> l, r |-> r]

Sum(l, r) == [t |-> "Bin", op |-> "+", l |-> l, r |-> r]

\* A statement's pragma is its annotation text, kept as the sequence of its
\* characters; <<>> is the empty string.
Assign(lhs, rhs) == [t |-> "Assign", lhs |-> lhs, rhs |-> rhs, typ |-> "double", pragma |-> <<>>]

Incr(lhs, rhs) == [t |-> "Incr", lhs |-> lhs, rhs |-> rhs, typ |-> "double", pragma |-> <<>>]

Decl(typ, s) == [t |-> "Decl", typ |-> typ, name |-> s.name, rank |-> s.rank]

\* A For node's header: for (init; cond; incr) with an optional pragma.
Header(v, size, pragma) ==
    [init |-> [var |-> v, lo |-> 0], cond |-> [var |-> v, hi |-> size],
     incr |-> [var |-> v, step |-> 1], pragma |-> pragma]

\* For.it_var(): the variable the loop's init declares.
it_var(h) == h.init.var

\* For.size(): the trip count, the bound of cond minus the start of init.
size(h) == h.cond.hi - h.init.lo

\* perf_stmt(node): statements allowed in a perfect nest; a For or a Block is none.
perf_stmt(node) == node.t \in {"Assign", "Incr", "Decl", "FunCall", "EmptyStatement"}

---------------------------------------------------------------------------
\* The inputs: perfect loop nests over the variables i, j, k, ... with one of a
\* catalogue of innermost statement blocks.

VarNames == <<"i", "j", "k", "l", "m", "n">>

TripCounts == <<2, 3, 4, 5, 6, 7>>

Pragmas == <<"", "#pragma simd", "", "#pragma unroll", "", "">>

InitLoops(n) == [p \in 1..n |-> Header(VarNames[p], TripCounts[p], Pragmas[p])]

Min(a, b) == IF a < b THEN a ELSE b

AllVars(n) == [p \in 1..n |-> VarNames[p]]

Two == Symbol("2", <<>>)

ProgIds == 1..12

\* The value expression of catalogue entry id for a nest of depth n; a, b are the
\* two outermost variables and z the innermost.
ProgExpr(n, id) ==
    LET a == VarNames[1]
        b == VarNames[Min(2, n)]
        z == VarNames[n]
        B(r) == Symbol("B", r)
        C(r) == Symbol("C", r)
        D(r) == Symbol("D", r)
        E(r) == Symbol("E", r)
        G(r) == Symbol("G", r)
        W(r) == Symbol("W", r)
    IN CASE id = 1 -> Sum(Prod(B(<<a>>), C(<<b>>)), D(<<a>>))
         [] id = 2 -> Prod(Par(Prod(B(<<a>>), Two)), C(<<z>>))
         [] id = 3 -> Prod(Sum(Prod(B(<<a>>), C(<<b>>)), D(<<a>>)), E(<<b>>))
         [] id = 4 -> Prod(Prod(B(<<a>>), D(<<a>>)), Prod(Two, C(<<z>>)))
         [] id = 5 -> Prod(Prod(G(<<a, b>>), Two), C(<<z>>))
         [] id = 6 -> Prod(Prod(G(<<b, a>>), Two), C(<<z>>))
         [] id = 7 -> Sum(Prod(Prod(B(<<a>>), Two), C(<<b>>)),
                          Prod(Prod(D(<<a>>), Two), C(<<b>>)))
         [] id = 10 -> Prod(Prod(W(<<a>>), Two), C(<<z>>))
         [] id = 9 -> Prod(Prod(Prod(G(<<a, b>>), Two), C(<<b>>)), E(<<z>>))
         [] id = 11 -> Prod(Prod(G(<<a, b>>), Two), Prod(D(<<b, a>>), Two))
         [] id = 12 -> Prod(Sum(Prod(Prod(B(<<a>>), Two), C(<<b>>)), D(<<a>>)), E(<<b>>))
         [] OTHER  -> Prod(Par(Sum(B(<<a>>), D(<<a>>))), Par(Sum(G(<<a, z>>), Two)))

\* Entry 10 is a block of two statements, the second reading what the first
\* accumulates.
ProgStmts(n, id) ==
    IF id = 7 THEN <<Incr(Symbol("A", AllVars(n)), ProgExpr(n, id))>>
    ELSE IF id = 10
    THEN <<Incr(Symbol("W", <<VarNames[1]>>), ProgExpr(n, 2)),
           Assign(Symbol("A", AllVars(n)), ProgExpr(n, id))>>
    ELSE <<Assign(Symbol("A", AllVars(n)), ProgExpr(n, id))>>

Nest == [t |-> "Nest"]

InitPre == <<Decl("double", Symbol("A", <<>>)), Nest, [t |-> "FunCall"]>>

---------------------------------------------------------------------------
\* LoopOptimiser._explore_perfect_nest: one depth-first walk of the nest that
\* collects the loop list, the declaration table, the symbol list, the innermost
\* block and the outer products the annotations name.

RECURSIVE NestTree(_, _, _)
\* The nest as the walk sees it, from the For node at tree position p down: each
\* For has one child, a Block, which holds the next For or, innermost, the
\* statements.
NestTree(hdrs, block, p) ==
    [t |-> "For", pos |-> p,
     body |-> [t |-> "Block", pos |-> p,
               children |-> IF p >= Len(hdrs) THEN block
                            ELSE <<NestTree(hdrs, block, p + 1)>>]]

\* A For or Block node is identified by its tree position.
NodeId(node) == IF node.t \in {"For", "Block"} THEN [t |-> node.t, pos |-> node.pos]
                ELSE [t |-> node.t]

\* str.find(c): the lowest 0-based index of c, -1 when there is none.
PyFind(s, c) ==
    IF \E x \in DOMAIN s : s[x] = c
    THEN (CHOOSE x \in DOMAIN s : s[x] = c /\ \A y \in 1..(x - 1) : s[y] # c) - 1
    ELSE 0 - 1

\* s[:d] and s[d:], d negative counting from the end.
PySliceTo(s, d) == SubSeq(s, 1, IF d < 0 THEN Len(s) + d ELSE Min(d, Len(s)))

PySliceFrom(s, d) ==
    SubSeq(s, (IF d < 0 THEN (IF Len(s) + d < 0 THEN 0 ELSE Len(s) + d) ELSE Min(d, Len(s))) + 1,
           Len(s))

\* s.replace(c, "")
PyRemove(s, c) == SelectSeq(s, LAMBDA ch : ch # c)

RECURSIVE PySplit(_, _, _)
\* s.split(sep, maxsplit)
PySplit(s, sep, maxsplit) ==
    LET d == PyFind(s, sep)
    IN IF maxsplit = 0 \/ d < 0 THEN <<s>>
       ELSE <<SubSeq(s, 1, d)>> \o PySplit(SubSeq(s, d + 2, Len(s)), sep, maxsplit - 1)

pyop2 == <<"p", "y", "o", "p", "2">>

outerproduct == <<"o", "u", "t", "e", "r", "p", "r", "o", "d", "u", "c", "t">>

\* check_opts(node, parent): acc.out_prods maps the node to the operand names and
\* the parent; an index past the end of opt_par raises.
check_opts(node, parent, acc) ==
    IF node.pragma = <<>> THEN acc
    ELSE LET opts == PySplit(node.pragma, " ", 2)
         IN IF Len(opts) < 3 THEN acc
            ELSE IF opts[2] # pyop2 THEN acc
            ELSE LET delim == PyFind(opts[3], "(")
                     opt_name == PyRemove(PySliceTo(opts[3], delim), " ")
                     opt_par == PyRemove(PySliceFrom(opts[3], delim), " ")
                 IN IF opt_name # outerproduct THEN acc
                    ELSE IF Len(opt_par) < 4 THEN [acc EXCEPT !.err = "IndexError"]
                    ELSE [acc EXCEPT !.out_prods =
                             (node :> [ops |-> <<<<opt_par[2]>>, <<opt_par[4]>>>>,
                                       parent |-> parent]) @@ @]

\* fors.append(node), with the loop list kept in the reverse order.
fors_prepend(acc, node) == [acc EXCEPT !.fors = <<node.pos>> \o @]

\* fors.append(node)
fors_append(acc, node) == [acc EXCEPT !.fors = Append(@, node.pos)]

RECURSIVE inspect(_, _, _)
RECURSIVE inspect_block(_, _, _, _)
\* inspect(node, parent, fors, decls, symbols); acc holds the three collections,
\* self.block, self.out_prods and err, the exception raised if any.
inspect(node, parent, acc) ==
    IF acc.err # "None" THEN acc
    ELSE IF node.t = "Block"
    THEN inspect_block(node.children, NodeId(node), 1, [acc EXCEPT !.block = node.pos])
    ELSE IF node.t = "For" THEN inspect(node.body, NodeId(node), fors_append(acc, node))
    ELSE IF node.t = "Par" THEN inspect(node.c, NodeId(node), acc)
    ELSE IF node.t = "Decl" THEN [acc EXCEPT !.decls = (node.name :> node) @@ @]
    ELSE IF node.t = "Sym"
    THEN IF node.name \notin Range(acc.symbols) /\ node.rank # <<>>
         THEN [acc EXCEPT !.symbols = Append(@, node.name)]
         ELSE acc
    ELSE IF node.t = "Bin"
    THEN inspect(node.r, NodeId(node), inspect(node.l, NodeId(node), acc))
    ELSE IF perf_stmt(node)
    THEN inspect(node.rhs, NodeId(node),
                 inspect(node.lhs, NodeId(node), check_opts(node, parent, acc)))
    ELSE acc

\* "for n in node.children: inspect(n, node, fors, decls, symbols)"
inspect_block(children, parent, x, acc) ==
    IF x > Len(children) THEN acc
    ELSE inspect_block(children, parent, x + 1, inspect(children[x], parent, acc))

\* _explore_perfect_nest(node): inspect(node, None, [], {}, []).
explore_perfect_nest(node) ==
    inspect(node, [t |-> "None"],
            [fors |-> <<>>, decls |-> <<>>, symbols |-> <<>>, block |-> 0,
             out_prods |-> <<>>, err |-> "None"])

Explore(n, id) == explore_perfect_nest(NestTree(InitLoops(n), ProgStmts(n, id), 1))

---------------------------------------------------------------------------
\* LoopOptimiser.__init__ on a perfect nest.

\* No JITModule is part of a run of the optimiser.
NoModule == [obj |-> <<>>, compiles |-> 0]

NoCall == [op |-> "none", perm |-> <<>>, ret |-> "None", ext |-> <<>>]

\* The state before a call; last is which call came before it and how it ended.
Snapshot == [pre |-> pre, loops |-> loops, inner |-> inner, stmts |-> stmts,
             fors |-> fors, decls |-> decls, sym |-> sym,
             last |-> [op |-> last.op, ret |-> last.ret]]

Init ==
    \E n \in 1..MaxDepth, id \in ProgIds :
        /\ prog = [n |-> n, id |-> id]
        /\ pre = InitPre
        /\ loops = InitLoops(n)
        /\ inner = [p \in 1..n |-> <<>>]
        /\ stmts = ProgStmts(n, id)
        /\ fors = Explore(n, id).fors
        /\ decls = Explore(n, id).decls
        /\ sym = Explore(n, id).symbols
        /\ self_block = Explore(n, id).block
        /\ out_prods = Explore(n, id).out_prods
        /\ jit = NoModule
        /\ last = NoCall
        /\ prev = [pre |-> InitPre, loops |-> InitLoops(n), inner |-> [p \in 1..n |-> <<>>],
                   stmts |-> ProgStmts(n, id), fors |-> Explore(n, id).fors,
                   decls |-> Explore(n, id).decls, sym |-> Explore(n, id).symbols,
                   last |-> [op |-> "none", ret |-> "None"]]
        /\ calls = 0

---------------------------------------------------------------------------
\* LoopOptimiser.interchange(perm).

\* Python's list indexing seq[x]: 0-based, negative x counts from the end.
PyInRange(s, x) == x < Len(s) /\ x >= 0 - Len(s)

PyIndex(s, x) == IF x >= 0 THEN s[x + 1] ELSE s[Len(s) + x + 1]

\* The first child of the body block of the loop at position pos.
FirstChild(pos) ==
    IF inner[pos] # <<>> THEN inner[pos][1]
    ELSE IF pos < Len(loops) THEN [t |-> "For"]
    ELSE IF stmts # <<>> THEN stmts[1]
    ELSE [t |-> "None"]

RECURSIVE find_perm_inverse(_, _, _, _, _)
\* find_perm moving the loop at index idx to position perm[idx], as the docstring
\* of interchange words it.
find_perm_inverse(pos, perm, idx, old_fors, st) ==
    IF ~PyInRange(perm, idx) \/ ~PyInRange(old_fors, PyIndex(perm, idx))
    THEN [st EXCEPT !.err = "IndexError"]
    ELSE LET to == IF PyIndex(perm, idx) >= 0 THEN PyIndex(perm, idx) + 1
                   ELSE Len(old_fors) + PyIndex(perm, idx) + 1
             src == old_fors[idx + 1]
             st1 == [st EXCEPT !.loops[to] = [init |-> src.init, cond |-> src.cond,
                                               incr |-> src.incr, pragma |-> src.pragma],
                               !.nw_fors = Append(@, pos)]
         IN IF FirstChild(pos).t = "For"
            THEN find_perm_inverse(pos + 1, perm, idx + 1, old_fors, st1)
            ELSE st1

RECURSIVE find_perm_body(_, _, _, _, _)
\* find_perm copying the children of the loop along with its header.
find_perm_body(pos, perm, idx, old_fors, st) ==
    IF ~PyInRange(perm, idx) \/ ~PyInRange(old_fors, PyIndex(perm, idx))
    THEN [st EXCEPT !.err = "IndexError"]
    ELSE LET src == PyIndex(old_fors, PyIndex(perm, idx))
             st1 == [st EXCEPT !.loops[pos] = [init |-> src.init, cond |-> src.cond,
                                                incr |-> src.incr, pragma |-> src.pragma],
                               !.inner[pos] = src.children,
                               !.nw_fors = Append(@, pos)]
         IN IF FirstChild(pos).t = "For"
            THEN find_perm_body(pos + 1, perm, idx + 1, old_fors, st1)
            ELSE st1

RECURSIVE find_perm_tracks_snapshot(_, _, _, _, _)
\* find_perm appending to nw_fors the loop it read the header from, not the live
\* node it wrote.
find_perm_tracks_snapshot(pos, perm, idx, old_fors, st) ==
    IF ~PyInRange(perm, idx) \/ ~PyInRange(old_fors, PyIndex(perm, idx))
    THEN [st EXCEPT !.err = "IndexError"]
    ELSE LET src == PyIndex(old_fors, PyIndex(perm, idx))
             st1 == [st EXCEPT !.loops[pos] = [init |-> src.init, cond |-> src.cond,
                                                incr |-> src.incr, pragma |-> src.pragma],
                               !.nw_fors = Append(@, PyIndex(fors, PyIndex(perm, idx)))]
         IN IF FirstChild(pos).t = "For"
            THEN find_perm_tracks_snapshot(pos + 1, perm, idx + 1, old_fors, st1)
            ELSE st1

RECURSIVE find_perm(_, _, _, _, _)
\* find_perm on the For node at tree position pos with index idx into perm;
\* st = [loops, inner, nw_fors, err], old_fors the copy of self.fors.
find_perm(pos, perm, idx, old_fors, st) ==
    IF ~PyInRange(perm, idx) \/ ~PyInRange(old_fors, PyIndex(perm, idx))
    THEN [st EXCEPT !.err = "IndexError"]
    ELSE LET src == PyIndex(old_fors, PyIndex(perm, idx))
             st1 == [st EXCEPT !.loops[pos] = [init |-> src.init, cond |-> src.cond,
                                                incr |-> src.incr, pragma |-> src.pragma],
                               !.nw_fors = Append(@, pos)]
         IN IF FirstChild(pos).t = "For"
            THEN find_perm(pos + 1, perm, idx + 1, old_fors, st1)
            ELSE st1

\* The legality check of interchange: no index occurs twice.
PermLegal(perm) == Len(perm) = Cardinality(Range(perm))

Bijections(n) == {p \in [1..n -> 0..(n - 1)] : \A x, y \in 1..n : x # y => p[x] # p[y]}

IsBijection(perm, n) == perm \in Bijections(n)

Identity(n) == [x \in 1..n |-> x - 1]

Rotation(n) == [x \in 1..n |-> x % n]

\* The permutations interchange is called with: every bijection, and ill-formed
\* tuples: a repeated index, an index past the end, a negative index, a tuple that
\* is too short and one that is too long.
PermInputs(n) ==
    Bijections(n)
    \cup UNION {{[p EXCEPT ![n] = p[1]], [p EXCEPT ![n] = n], [p EXCEPT ![1] = n],
                 [p EXCEPT ![n] = 0 - 1], SubSeq(p, 1, n - 1), Append(p, n)}
                : p \in {Identity(n), Rotation(n)}}

\* old_fors = dcopy(self.fors): the tracked loops as they are before the walk.
old_fors_copy ==
    [x \in 1..Len(fors) |-> [init |-> loops[fors[x]].init, cond |-> loops[fors[x]].cond,
                             incr |-> loops[fors[x]].incr, pragma |-> loops[fors[x]].pragma,
                             children |-> inner[fors[x]]]]

Interchange(perm) ==
    /\ calls < MaxCalls
    /\ calls' = calls + 1
    /\ prev' = Snapshot
    /\ UNCHANGED <<prog, pre, stmts, decls, sym, self_block, out_prods, jit>>
    /\ IF ~PermLegal(perm)
       THEN /\ UNCHANGED <<loops, inner, fors>>
            /\ last' = [op |-> "interchange", perm |-> perm, ret |-> "None", ext |-> <<>>]
       ELSE LET r == find_perm(1, perm, 0, old_fors_copy,
                               [loops |-> loops, inner |-> inner, nw_fors |-> <<>>,
                                err |-> "None"])
            IN /\ loops' = r.loops
               /\ inner' = r.inner
               /\ fors' = IF r.err = "None" THEN r.nw_fors ELSE fors
               /\ last' = [op |-> "interchange", perm |-> perm, ret |-> r.err, ext |-> <<>>]

---------------------------------------------------------------------------
\* LoopOptimiser.licm().
\*
\* A node of a statement's value expression is identified by its path from the
\* root (0: children[0], 1: children[1]).  replace_const rewrites child links in
\* place; rep is the set of links rewritten so far, [path, sym].  A node that was
\* cut out of the statement keeps the content it had when it was cut out.

RECURSIVE NodeAt(_, _)
NodeAt(e, path) ==
    IF path = <<>> THEN e
    ELSE NodeAt(IF e.t = "Par" THEN e.c ELSE IF Head(path) = 0 THEN e.l ELSE e.r, Tail(path))

Replaced(rep, path) == \E r \in rep : r.path = path

RECURSIVE Content(_, _, _, _)
\* The node first found at path, as it is now; with top, the link to the node
\* itself is not followed (the node object, not what its parent now holds).
Content(base, path, rep, top) ==
    IF ~top /\ Replaced(rep, path) THEN (CHOOSE r \in rep : r.path = path).sym
    ELSE LET node == NodeAt(base, path)
         IN IF node.t = "Sym" THEN node
            ELSE IF node.t = "Par" THEN Par(Content(base, Append(path, 0), rep, FALSE))
            ELSE [node EXCEPT !.l = Content(base, Append(path, 0), rep, FALSE),
                              !.r = Content(base, Append(path, 1), rep, FALSE)]

\* The symbols written in the nest: the left-hand sides of the innermost block.
written_vars(block) ==
    {block[s].lhs.name : s \in {x \in DOMAIN block : block[x].t \in {"Assign", "Incr"}}}

RECURSIVE extract_const_symbols(_, _, _)
\* extract_const registering bare symbols as well.
extract_const_symbols(e, path, written) ==
    LET node == NodeAt(e, path)
    IN IF node.t = "Sym"
       THEN [dep |-> node.loop_dep, inv |-> node.name \notin written, reg |-> <<>>]
       ELSE IF node.t = "Par" THEN extract_const_symbols(e, Append(path, 0), written)
       ELSE LET L == extract_const_symbols(e, Append(path, 0), written)
                R == extract_const_symbols(e, Append(path, 1), written)
                below == L.reg \o R.reg
            IN IF L.dep = R.dep THEN [dep |-> L.dep, inv |-> TRUE, reg |-> below]
               ELSE IF Len(L.dep) = 0 THEN [dep |-> R.dep, inv |-> TRUE, reg |-> below]
               ELSE IF Len(R.dep) = 0 THEN [dep |-> L.dep, inv |-> TRUE, reg |-> below]
               ELSE [dep |-> <<>>, inv |-> FALSE,
                     reg |-> below
                        \o (IF L.inv THEN <<[key |-> L.dep, path |-> Append(path, 0)]>> ELSE <<>>)
                        \o (IF R.inv THEN <<[key |-> R.dep, path |-> Append(path, 1)]>> ELSE <<>>)]

RECURSIVE extract_const(_, _, _)
\* extract_const(node, expr_dep): the pair (dependence, invariant) it returns and
\* reg, the entries it appended to expr_dep, in order.
extract_const(e, path, written) ==
    LET node == NodeAt(e, path)
    IN IF node.t = "Sym"
       THEN [dep |-> node.loop_dep, inv |-> node.name \notin written, reg |-> <<>>]
       ELSE IF node.t = "Par" THEN extract_const(e, Append(path, 0), written)
       ELSE LET L == extract_const(e, Append(path, 0), written)
                R == extract_const(e, Append(path, 1), written)
                below == L.reg \o R.reg
            IN IF L.dep = R.dep THEN [dep |-> L.dep, inv |-> TRUE, reg |-> below]
               ELSE IF Len(L.dep) = 0 THEN [dep |-> R.dep, inv |-> TRUE, reg |-> below]
               ELSE IF Len(R.dep) = 0 THEN [dep |-> L.dep, inv |-> TRUE, reg |-> below]
               ELSE [dep |-> <<>>, inv |-> FALSE,
                     reg |-> below
                        \o (IF L.inv /\ node.l.t # "Sym"
                            THEN <<[key |-> L.dep, path |-> Append(path, 0)]>> ELSE <<>>)
                        \o (IF R.inv /\ node.r.t # "Sym"
                            THEN <<[key |-> R.dep, path |-> Append(path, 1)]>> ELSE <<>>)]

\* expr_dep of a statement: the registrations of its value expression.
expr_dep(s, block) == extract_const(s.rhs, <<>>, written_vars(block)).reg

\* expr_dep[key]: the expressions registered under key, in order.
Group(reg, key) == SelectSeq(reg, LAMBDA x : x.key = key)

RECURSIVE replace_const(_, _, _, _)
\* replace_const(node, syms_dict): whether node is a hoisted expression, and the
\* links rewritten; dict is syms_dict as a set of [path, sym].
replace_const(base, path, rep, dict) ==
    LET node == NodeAt(base, path)
        no == [found |-> FALSE, rep |-> rep, err |-> "None"]
        yes == [found |-> TRUE, rep |-> rep, err |-> "None"]
        InDict(q) == \E d \in dict : d.path = q
        SymOf(q) == (CHOOSE d \in dict : d.path = q).sym
    IN IF Replaced(rep, path) \/ node.t = "Sym" THEN no
       ELSE IF node.t = "Par"
       THEN IF InDict(path) THEN yes ELSE replace_const(base, Append(path, 0), rep, dict)
       ELSE IF InDict(path) THEN yes
       ELSE LET lp == Append(path, 0)
                rp == Append(path, 1)
                L == replace_const(base, lp, rep, dict)
            IN IF L.err # "None" THEN L
               ELSE IF L.found /\ ~InDict(lp) THEN [L EXCEPT !.found = FALSE, !.err = "KeyError"]
               ELSE LET rep1 == IF L.found THEN L.rep \cup {[path |-> lp, sym |-> SymOf(lp)]}
                                ELSE L.rep
                        R == replace_const(base, rp, rep1, dict)
                    IN IF R.err # "None" THEN R
                       ELSE IF R.found /\ ~InDict(rp)
                       THEN [R EXCEPT !.found = FALSE, !.err = "KeyError"]
                       ELSE [found |-> FALSE, err |-> "None",
                             rep |-> IF R.found
                                     THEN R.rep \cup {[path |-> rp, sym |-> SymOf(rp)]}
                                     ELSE R.rep]

\* The indices of self.fors of the loops whose variable is in the set want.
ForsWhere(want) ==
    SelectIdx([x \in 1..Len(fors) |-> it_var(loops[fors[x]]) \in want], 1, Len(fors))

\* The variables of the tracked loops.
ForVars == {it_var(loops[fors[x]]) : x \in 1..Len(fors)}

\* fast_for taken for the first variable of dep.
fast_for_first(dep) == ForsWhere({dep[1]})

\* fast_for: the loops of the last variable of dep; the code takes the first.
fast_for(dep) == ForsWhere({dep[Len(dep)]})

\* n_dep_for: the loops whose variable is not in dep; the code takes the first.
n_dep_for(dep) == ForsWhere(ForVars \ Range(dep))

\* pre_loop: the last loop of self.fors before the first of fast_for and
\* n_dep_for, as an index of self.fors; 0 when there is none.
pre_loop(fast, ndep) ==
    ForsWhere({it_var(loops[fors[fast]]), it_var(loops[fors[ndep]])})[1] - 1

\* wrap_loops taking, at the pre-header, the loops whose variable is not in dep.
wrap_loops_not_dep(dep, fast, pl) ==
    IF pl # 0 THEN <<fors[fast]>>
    ELSE LET xs == ForsWhere(ForVars \ Range(dep))
         IN [x \in 1..Len(xs) |-> fors[xs[x]]]

\* The loops that wrap the hoisted code, as tree positions, in the order of wl.
wrap_loops(dep, fast, pl) ==
    IF pl # 0 THEN <<fors[fast]>>
    ELSE LET xs == ForsWhere(Range(dep))
         IN [x \in 1..Len(xs) |-> fors[xs[x]]]

\* "LI_%s_%s" % (wl[0].it_var(), i)
tmp_name(v, i) == "LI_" \o v \o "_" \o ToString(i)

\* For(dcopy(l.init), dcopy(l.cond), dcopy(l.incr), block): no pragma is passed.
inv_header(h) == [init |-> h.init, cond |-> h.cond, incr |-> h.incr, pragma |-> ""]

\* The index of the loop nest among the children of the pre-header.
NestIndex(children) == CHOOSE x \in DOMAIN children : children[x].t = "Nest"

\* The new block put behind the children the place has.
splice_at_end(children, ofs, new) == children \o new

\* new_block = var_decl + [inv_for] + place.children[ofs:]
\* place.children = place.children[:ofs] + new_block
splice(children, ofs, new) == SubSeq(children, 1, ofs) \o new \o SubSeq(children, ofs + 1, Len(children))

\* Decl(typ, _s) made by licm(): a new node each time; the node is identified by
\* the index its name gets in self.sym.
new_decl(typ, s, at) == Decl(typ, s) @@ [node |-> at]

\* ext_loops.append(inv_for) for every group, wherever it was placed.
ext_loops_append_always(ext, pl, inv_for) == Append(ext, inv_for)

\* "if not pre_loop: ext_loops.append(inv_for)"; pl = 0 is pre_loop None.
ext_loops_append(ext, pl, inv_for) == IF pl = 0 THEN Append(ext, inv_for) ELSE ext

\* One iteration of "for dep, expr in expr_dep.items()" for statement s with value
\* expression base: st = [pre, inner, sym, decls, ext, rep, err].
hoist_group(st, base, typ, dep, group) ==
    IF Len(dep) = 0 \/ fast_for(dep) = <<>> \/ n_dep_for(dep) = <<>>
    THEN [st EXCEPT !.err = "IndexError"]
    ELSE LET fast == fast_for(dep)[1]
             ndep == n_dep_for(dep)[1]
             pl == pre_loop(fast, ndep)
             wl == wrap_loops(dep, fast, pl)
             sym_rank == [x \in 1..Len(wl) |-> size(loops[wl[x]])]
             syms == [x \in 1..Len(group) |->
                         SizedSymbol(tmp_name(it_var(loops[wl[1]]), x - 1), sym_rank)]
             var_decl == [x \in 1..Len(group) |-> new_decl(typ, syms[x], Len(st.sym) + x)]
             for_rank == Reverse([x \in 1..Len(wl) |-> it_var(loops[wl[x]])])
             for_sym == [x \in 1..Len(group) |-> Symbol(var_decl[x].name, for_rank)]
             for_ass == [x \in 1..Len(group) |->
                            [t |-> "Assign", lhs |-> for_sym[x],
                             rhs |-> Content(base, group[x].path, st.rep, TRUE)]]
             inv_for == [t |-> "For", dep |-> dep, body |-> for_ass,
                         hdrs |-> Reverse([x \in 1..Len(wl) |-> inv_header(loops[wl[x]])])]
             new == var_decl \o <<inv_for>>
             names == [x \in 1..Len(group) |-> var_decl[x].name]
             new_decls == [nm \in Range(names) |->
                              var_decl[CHOOSE x \in DOMAIN names :
                                          names[x] = nm /\ \A y \in DOMAIN names :
                                                              names[y] = nm => y <= x]]
             dict == {[path |-> group[x].path, sym |-> for_sym[x]] : x \in 1..Len(group)}
             rc == replace_const(base, <<>>, st.rep, dict)
         IN [pre |-> IF pl = 0 THEN splice(st.pre, NestIndex(st.pre) - 1, new) ELSE st.pre,
             inner |-> IF pl = 0 THEN st.inner
                       ELSE [st.inner EXCEPT ![fors[pl]] = splice(@, 0, new)],
             sym |-> st.sym \o names,
             decls |-> new_decls @@ st.decls,
             rep |-> rc.rep,
             ext |-> ext_loops_append(st.ext, pl, inv_for),
             err |-> rc.err]

RECURSIVE hoist_groups(_, _, _, _, _, _)
\* The groups of one statement, taken in the order ord gives the keys.
hoist_groups(st, base, typ, reg, ord, x) ==
    IF x > Len(ord) \/ st.err # "None" THEN st
    ELSE LET group == Group(reg, ord[x])
         IN hoist_groups(IF group = <<>> THEN st ELSE hoist_group(st, base, typ, ord[x], group),
                         base, typ, reg, ord, x + 1)

\* typ = decl[s.children[0].symbol].typ: the name decl is none of this module; the
\* lookup gives the declared type of the statement's target, or raises.
decl_typ(s) == s.typ

RECURSIVE licm_stmts(_, _, _, _)
\* "for s in self.block.children": st = [pre, inner, stmts, sym, decls, ext, err].
licm_stmts(st, ok, ord, x) ==
    IF x > Len(st.stmts) \/ st.err # "None" THEN st
    ELSE LET s == st.stmts[x]
         IN IF s.t \notin {"Assign", "Incr"} THEN licm_stmts(st, ok, ord, x + 1)
            ELSE IF ~ok THEN [st EXCEPT !.err = "NameError"]
            ELSE LET reg == expr_dep(s, stmts)
                     g == hoist_groups([pre |-> st.pre, inner |-> st.inner, sym |-> st.sym,
                                        decls |-> st.decls, ext |-> st.ext, rep |-> {},
                                        err |-> "None"],
                                       s.rhs, decl_typ(s), reg, ord, 1)
                 IN licm_stmts([pre |-> g.pre, inner |-> g.inner, sym |-> g.sym,
                                decls |-> g.decls, ext |-> g.ext, err |-> g.err,
                                stmts |-> [st.stmts EXCEPT
                                              ![x].rhs = Content(s.rhs, <<>>, g.rep, TRUE)]],
                               ok, ord, x + 1)

\* The keys of expr_dep over the statements of the block.
AllKeys ==
    UNION {{r.key : r \in Range(expr_dep(stmts[x], stmts))} :
              x \in {y \in DOMAIN stmts : stmts[y].t \in {"Assign", "Incr"}}}

\* One call of licm(): ok is whether the lookup of the target's type succeeds,
\* ord the order in which the dictionary expr_dep yields its keys.
Licm(ok, ord) ==
    /\ calls < MaxCalls
    /\ calls' = calls + 1
    /\ prev' = Snapshot
    /\ UNCHANGED <<prog, loops, fors, self_block, out_prods, jit>>
    /\ LET r == licm_stmts([pre |-> pre, inner |-> inner, stmts |-> stmts, sym |-> sym,
                            decls |-> decls, ext |-> <<>>, err |-> "None"], ok, ord, 1)
       IN /\ pre' = r.pre
          /\ inner' = r.inner
          /\ stmts' = r.stmts
          /\ sym' = r.sym
          /\ decls' = r.decls
          /\ last' = [op |-> "licm", perm |-> <<>>, ret |-> r.err,
                      ext |-> IF r.err = "None" THEN r.ext ELSE <<>>]

Next ==
    \/ \E perm \in PermInputs(prog.n) : Interchange(perm)
    \/ \E ok \in BOOLEAN, ord \in Orders(AllKeys) : Licm(ok, ord)

Spec == Init /\ [][Next]_vars

---------------------------------------------------------------------------
\* Construction on annotated nests: LoopOptimiser(loop_nest, pre_header) where the
\* first statement of the innermost block carries an annotation.

SP == <<" ">>

pragma_word == <<"#", "p", "r", "a", "g", "m", "a">>

omp == <<"o", "m", "p">>

tile == <<"t", "i", "l", "e">>

RECURSIVE JoinArgs(_, _)
\* The argument names separated by sep.
JoinArgs(args, sep) ==
    IF args = <<>> THEN <<>>
    ELSE IF Len(args) = 1 THEN args[1]
    ELSE args[1] \o sep \o JoinArgs(Tail(args), sep)

\* An annotation: tokens is how many of the three parts <word> <namespace>
\* <optName>(<args>) the text has, paren whether the argument list is there at
\* all, sep what separates the arguments.
Directive(tokens, ns, opt, paren, args, sep) ==
    [tokens |-> tokens, ns |-> ns, opt |-> opt, paren |-> paren, args |-> args, sep |-> sep]

\* The text of an annotation.
Text(a) ==
    pragma_word
    \o (IF a.tokens >= 2 THEN SP \o a.ns ELSE <<>>)
    \o (IF a.tokens >= 3
        THEN SP \o a.opt \o (IF a.paren THEN <<"(">> \o JoinArgs(a.args, a.sep) \o <<")">>
                             ELSE <<>>)
        ELSE <<>>)

Annotations ==
    LET j == <<"j">>
        k == <<"k">>
        j1 == <<"j", "1">>
        k1 == <<"k", "1">>
        comma == <<",">>
    IN <<Directive(3, pyop2, outerproduct, TRUE, <<j, k>>, comma),
         Directive(3, pyop2, outerproduct, TRUE, <<j, k>>, <<",", " ">>),
         Directive(3, pyop2, outerproduct, TRUE, <<j1, k1>>, comma),
         Directive(3, pyop2, outerproduct, TRUE, <<k, j1>>, comma),
         Directive(1, pyop2, outerproduct, TRUE, <<j, k>>, comma),
         Directive(2, pyop2, outerproduct, TRUE, <<j, k>>, comma),
         Directive(3, omp, outerproduct, TRUE, <<j, k>>, comma),
         Directive(3, pyop2, tile, TRUE, <<j, k>>, comma),
         Directive(3, pyop2, outerproduct, FALSE, <<>>, comma),
         Directive(3, pyop2, outerproduct, TRUE, <<>>, comma),
         Directive(3, pyop2, outerproduct, TRUE, <<j>>, comma)>>

\* The block with the annotation a on its first statement.
Annotated(stmt_block, a) == [stmt_block EXCEPT ![1].pragma = Text(a)]

\* Before construction: the nest and the pre-header are there, the optimiser
\* has no attribute yet.
InitExplore ==
    \E n \in 1..MaxDepth, id \in ProgIds, a \in DOMAIN Annotations :
        /\ prog = [n |-> n, id |-> id, ann |-> Annotations[a]]
        /\ pre = InitPre
        /\ loops = InitLoops(n)
        /\ inner = [p \in 1..n |-> <<>>]
        /\ stmts = Annotated(ProgStmts(n, id), Annotations[a])
        /\ fors = <<>>
        /\ decls = <<>>
        /\ sym = <<>>
        /\ self_block = 0
        /\ out_prods = <<>>
        /\ jit = NoModule
        /\ last = NoCall
        /\ prev = [pre |-> InitPre, loops |-> InitLoops(n), inner |-> [p \in 1..n |-> <<>>],
                   stmts |-> Annotated(ProgStmts(n, id), Annotations[a]), fors |-> <<>>,
                   decls |-> <<>>, sym |-> <<>>, last |-> [op |-> "none", ret |-> "None"]]
        /\ calls = 0

\* LoopOptimiser.__init__: when the walk raises, no optimiser comes to be.
Construct ==
    /\ calls = 0
    /\ calls' = 1
    /\ prev' = Snapshot
    /\ UNCHANGED <<prog, pre, loops, inner, stmts, jit>>
    /\ LET r == explore_perfect_nest(NestTree(loops, stmts, 1))
       IN /\ last' = [op |-> "init", perm |-> <<>>, ret |-> r.err, ext |-> <<>>]
          /\ IF r.err = "None"
             THEN /\ fors' = r.fors
                  /\ decls' = r.decls
                  /\ sym' = r.symbols
                  /\ self_block' = r.block
                  /\ out_prods' = r.out_prods
             ELSE UNCHANGED <<fors, decls, sym, self_block, out_prods>>

NextExplore == Construct

SpecExplore == InitExplore /\ [][NextExplore]_vars

---------------------------------------------------------------------------
\* pyop2/sequential.py: the arguments a par_loop hands to its compiled wrapper.
\*
\* A Dat or a Map is an object with an identity; iterating it gives its parts: a
\* plain Dat or Map gives itself, a mixed one its constituents.  An entry of a
\* list of C types, of C parameters or of C values is written [c, of]: the C type
\* and the object whose data it stands for ("int" for a plain integer).

RECURSIVE Concat(_)
\* The concatenation of a sequence of sequences.
Concat(q) == IF q = <<>> THEN <<>> ELSE Head(q) \o Concat(Tail(q))

Obj(id, split) == [id |-> id, split |-> split]

\* "for d in obj": the parts of a Dat or of a Map.
Iter(obj) == [k \in DOMAIN obj.split |-> Obj(obj.split[k], <<obj.split[k]>>)]

\* The map of an Arg is None, one Map, or a tuple of Maps: [is_tuple, items],
\* items holding the Map or the Maps.
NoMap == [is_tuple |-> FALSE, items |-> <<>>]

OneMap(m) == [is_tuple |-> FALSE, items |-> <<m>>]

MapTuple(ms) == [is_tuple |-> TRUE, items |-> ms]

\* as_tuple(arg.map, Map): a tuple stays, a single Map becomes a tuple of one.
as_tuple(map) == map.items

\* "for map in arg._map": a tuple gives its elements, a single Map its parts.
IterMaps(map) == IF map.is_tuple THEN map.items ELSE Iter(map.items[1])

\* The kinds of Arg of a par_loop: a Dat or a mixed Dat accessed directly, a Dat
\* through a Map, a mixed Dat through a mixed Map, a Mat with its two Maps.
DirectDat ==
    [data |-> Obj("d", <<"d">>), map |-> NoMap, is_mat |-> FALSE, is_indirect |-> FALSE]

DirectMixedDat ==
    [data |-> Obj("x", <<"x0", "x1">>), map |-> NoMap, is_mat |-> FALSE, is_indirect |-> FALSE]

IndirectDat ==
    [data |-> Obj("e", <<"e">>), map |-> OneMap(Obj("m", <<"m">>)), is_mat |-> FALSE,
     is_indirect |-> TRUE]

IndirectMixedDat ==
    [data |-> Obj("y", <<"y0", "y1">>), map |-> OneMap(Obj("mm", <<"mm0", "mm1">>)),
     is_mat |-> FALSE, is_indirect |-> TRUE]

MatArg ==
    [data |-> Obj("M", <<"M">>), map |-> MapTuple(<<Obj("r", <<"r">>), Obj("c", <<"c">>)>>),
     is_mat |-> TRUE, is_indirect |-> FALSE]

ArgKinds == {DirectDat, DirectMixedDat, IndirectDat, IndirectMixedDat, MatArg}

\* Most arguments of one par_loop.
MaxArgs == 2

\* iterset.layers of an extruded set.
Layers == 3

\* The iteration sets: a Set, a Subset, an ExtrudedSet and a Subset of one.
IterSets ==
    {[subset |-> sb, extruded |-> ex, layers |-> IF ex THEN Layers ELSE 1] :
        sb \in BOOLEAN, ex \in BOOLEAN}

PlainSet == [subset |-> FALSE, extruded |-> FALSE, layers |-> 1]

Regions == {"ALL", "ON_BOTTOM", "ON_TOP", "ON_INTERIOR_FACETS"}

\* IntType.c_type as ctypes declares it: a plain C integer.
index_type == [c |-> "int", of |-> "int"]

\* The entries for the Maps of an argument, as set_argtypes and c_wrapper_arg
\* walk them: as_tuple(arg.map, Map), then the parts of each Map.
MapEntries(arg) ==
    IF arg.is_indirect \/ arg.is_mat
    THEN Concat([i \in DOMAIN as_tuple(arg.map) |->
                    [j \in DOMAIN Iter(as_tuple(arg.map)[i]) |->
                        [c |-> "int*", of |-> Iter(as_tuple(arg.map)[i])[j].id]]])
    ELSE <<>>

\* JITModule.set_argtypes(iterset, *args): the list it stores in self._argtypes.
set_argtypes(iterset, args) ==
    <<index_type, index_type>>
    \o (IF iterset.subset THEN <<[c |-> "int*", of |-> "indices"]>> ELSE <<>>)
    \o Concat([a \in DOMAIN args |->
                  (IF args[a].is_mat THEN <<[c |-> "Mat", of |-> args[a].data.id]>>
                   ELSE [k \in DOMAIN Iter(args[a].data) |->
                            [c |-> "T*", of |-> Iter(args[a].data)[k].id]])
                  \o MapEntries(args[a])])
    \o (IF iterset.extruded THEN <<index_type, index_type>> ELSE <<>>)

\* The layer bounds prepare_arglist appends for an extruded set.
layer_bounds(iterset, region) ==
    CASE region = "ON_BOTTOM" -> <<0, 1, iterset.layers - 1>>
      [] region = "ON_TOP" -> <<iterset.layers - 2, iterset.layers - 1, iterset.layers - 1>>
      [] region = "ON_INTERIOR_FACETS" -> <<0, iterset.layers - 2, iterset.layers - 2>>
      [] OTHER -> <<0, iterset.layers - 1, iterset.layers - 1>>

\* ParLoop.prepare_arglist(iterset, *args): the values it returns; val is the
\* number passed for a plain integer.
prepare_arglist(iterset, args, region) ==
    (IF iterset.subset THEN <<[c |-> "int*", of |-> "indices", val |-> 0]>> ELSE <<>>)
    \o Concat([a \in DOMAIN args |->
                  (IF args[a].is_mat
                   THEN <<[c |-> "Mat", of |-> args[a].data.id, val |-> 0]>>
                   ELSE [k \in DOMAIN Iter(args[a].data) |->
                            [c |-> "T*", of |-> Iter(args[a].data)[k].id, val |-> 0]])
                  \o (IF args[a].is_indirect \/ args[a].is_mat
                      THEN Concat([i \in DOMAIN IterMaps(args[a].map) |->
                                      [j \in DOMAIN Iter(IterMaps(args[a].map)[i]) |->
                                          [c |-> "int*", val |-> 0,
                                           of |-> Iter(IterMaps(args[a].map)[i])[j].id]]])
                      ELSE <<>>)])
    \o (IF iterset.extruded
        THEN [k \in 1..3 |-> [c |-> "int", of |-> "int",
                              val |-> layer_bounds(iterset, region)[k]]]
        ELSE <<>>)

\* Arg.c_wrapper_arg(): the parameters the wrapper declares for one argument.
c_wrapper_arg(arg) ==
    (IF arg.is_mat THEN <<[c |-> "Mat", of |-> arg.data.id]>>
     ELSE [k \in 1..Len(arg.data.split) |-> [c |-> "T*", of |-> arg.data.split[k]]])
    \o MapEntries(arg)

\* The parameter list of the wrapper that wrapper_snippets and the template
\* _wrapper generate: start, end, ssinds_arg, wrapper_args, layer_arg.
wrapper_params(iterset, args) ==
    <<index_type, index_type>>
    \o (IF iterset.subset THEN <<[c |-> "int*", of |-> "indices"]>> ELSE <<>>)
    \o Concat([a \in DOMAIN args |-> c_wrapper_arg(args[a])])
    \o (IF iterset.extruded THEN <<index_type, index_type, index_type>> ELSE <<>>)

---------------------------------------------------------------------------
\* pyop2/sequential.py: JITModule, the cached compiled function of a par_loop.
\*
\* The class is cached by its base class: JITModule(kernel, itspace, *args, ...)
\* gives the module already made for the same par_loop when there is one, and
\* __init__ then runs on that module again ("Return early if we were in the
\* cache").  jit.obj maps the names of the attributes the module holds to their
\* values; a module that __new__ has just made holds _initialized = False.

\* The argument tuples a par_loop is made with.
ParLoopArgs == {<<DirectDat>>, <<DirectDat, IndirectDat>>}

NewModule == [obj |-> ("_initialized" :> FALSE), compiles |-> 0]

hasattr(obj, name) == name \in DOMAIN obj

\* del self.<name> for every name of names.
del(obj, names) == [x \in DOMAIN obj \ names |-> obj[x]]

\* The attributes compile() deletes once the code is loaded.
Dropped == {"_args", "_kernel", "_itspace", "_direct"}

\* compile() deleting nothing.
blow_away_nothing(obj) == obj

\* "Blow away everything we don't need any more".
blow_away(obj) == del(obj, Dropped)

\* generate_code(): the dictionary of snippets is made once from _itspace, _args
\* and _kernel.
generate_code(obj) ==
    IF obj["_code_dict"] = "None" THEN [obj EXCEPT !["_code_dict"] = "snippets"] ELSE obj

\* compile() on module m: loads is whether compilation.load gives the function
\* or raises, debug is configuration["debug"].  cppargs is self._cppargs itself,
\* so the flags are appended to the attribute: its value is how many times.
compile(m, loads, debug) ==
    IF ~hasattr(m.obj, "_args")
    THEN [obj |-> m.obj, compiles |-> m.compiles, ret |-> "RuntimeError"]
    ELSE LET coded == generate_code(m.obj)
             dumped == IF debug THEN ("_wrapper_code" :> "code") @@ coded ELSE coded
             flagged == [dumped EXCEPT !["_cppargs"] = @ + 1]
         IN IF ~loads
            THEN [obj |-> flagged, compiles |-> m.compiles, ret |-> "CompilationError"]
            ELSE [obj |-> blow_away([flagged EXCEPT !["_fun"] = "fun"]),
                  compiles |-> m.compiles + 1, ret |-> "fun"]

\* The attributes __init__ sets before it compiles.
init_attrs(args, direct) ==
    [x \in {"comm", "_kernel", "_fun", "_code_dict", "_itspace", "_args", "_direct",
            "_iteration_region", "_pass_layer_arg", "_cppargs", "_libraries",
            "_system_headers", "_argtypes"} |->
        CASE x = "comm" -> "comm"
          [] x = "_kernel" -> "kernel"
          [] x = "_fun" -> "None"
          [] x = "_code_dict" -> "None"
          [] x = "_itspace" -> "itspace"
          [] x = "_args" -> args
          [] x = "_direct" -> direct
          [] x = "_iteration_region" -> "ALL"
          [] x = "_pass_layer_arg" -> FALSE
          [] x = "_cppargs" -> 0
          [] x = "_libraries" -> <<>>
          [] x = "_system_headers" -> <<>>
          [] OTHER -> set_argtypes(PlainSet, args)]

\* __init__(kernel, itspace, *args, direct=..., delay=...) on module m.
jit_init(m, args, direct, delay, loads, debug) ==
    IF m.obj["_initialized"] THEN [obj |-> m.obj, compiles |-> m.compiles, ret |-> "None"]
    ELSE LET set == init_attrs(args, direct) @@ m.obj
         IN IF delay THEN [obj |-> set, compiles |-> m.compiles, ret |-> "None"]
            ELSE LET c == compile([obj |-> set, compiles |-> m.compiles], loads, debug)
                 IN IF c.ret # "fun" THEN c
                    ELSE [obj |-> [c.obj EXCEPT !["_initialized"] = TRUE],
                          compiles |-> c.compiles, ret |-> "None"]

\* The module has come out of a constructor call: a module whose first __init__
\* raised is given to nobody.
Made(m) == hasattr(m.obj, "comm")

InitJIT ==
    /\ jit = NewModule
    /\ prog = [n |-> 0, id |-> 0]
    /\ pre = <<>>
    /\ loops = <<>>
    /\ inner = <<>>
    /\ stmts = <<>>
    /\ fors = <<>>
    /\ decls = <<>>
    /\ sym = <<>>
    /\ self_block = 0
    /\ out_prods = <<>>
    /\ last = NoCall
    /\ prev = [pre |-> <<>>, loops |-> <<>>, inner |-> <<>>, stmts |-> <<>>, fors |-> <<>>,
               decls |-> <<>>, sym |-> <<>>, last |-> [op |-> "none", ret |-> "None"]]
    /\ calls = 0

Optimiser == <<prog, pre, loops, inner, stmts, fors, decls, sym, self_block, out_prods, prev>>

\* JITModule(kernel, itspace, *args, direct=direct, delay=delay): the first call
\* makes the module, a later one finds it in the cache; either runs __init__.
JITInit(args, direct, delay, loads, debug) ==
    /\ calls < MaxJITCalls
    /\ calls' = calls + 1
    /\ UNCHANGED Optimiser
    /\ LET r == jit_init(jit, args, direct, delay, loads, debug)
       IN /\ jit' = IF r.ret # "None" /\ ~Made(jit) THEN NewModule
                    ELSE [obj |-> r.obj, compiles |-> r.compiles]
          /\ last' = [op |-> "__init__", perm |-> <<>>, ret |-> r.ret, ext |-> <<>>,
                      was |-> jit.compiles]

\* module.compile()
JITCompile(loads, debug) ==
    /\ Made(jit)
    /\ calls < MaxJITCalls
    /\ calls' = calls + 1
    /\ UNCHANGED Optimiser
    /\ LET r == compile(jit, loads, debug)
       IN /\ jit' = [obj |-> r.obj, compiles |-> r.compiles]
          /\ last' = [op |-> "compile", perm |-> <<>>, ret |-> r.ret, ext |-> <<>>,
                      was |-> jit.compiles]

\* module(*args): "return self._fun(*args)".
JITCall ==
    /\ Made(jit)
    /\ calls < MaxJITCalls
    /\ calls' = calls + 1
    /\ UNCHANGED <<Optimiser, jit>>
    /\ last' = [op |-> "__call__", perm |-> <<>>,
                ret |-> IF jit.obj["_fun"] = "None" THEN "TypeError" ELSE "None",
                ext |-> <<>>, was |-> jit.compiles]

NextJIT ==
    \/ \E args \in ParLoopArgs, direct, delay, loads, debug \in BOOLEAN :
          JITInit(args, direct, delay, loads, debug)
    \/ \E loads, debug \in BOOLEAN : JITCompile(loads, debug)
    \/ JITCall

SpecJIT == InitJIT /\ [][NextJIT]_vars

---------------------------------------------------------------------------
\* pyop2/sequential.py: one par_loop getting ready to call its wrapper.  prog
\* holds the par_loop (iteration set, arguments, iteration region), jit the
\* module, and last.ext the argument list of the latest prepare_arglist.

RECURSIVE SeqsUpTo(_, _)
\* The nonempty sequences over S of length at most n.
SeqsUpTo(S, n) ==
    IF n = 0 THEN {}
    ELSE {<<x>> : x \in S}
         \cup SeqsUpTo(S, n - 1)
         \cup {Append(q, x) : q \in SeqsUpTo(S, n - 1), x \in S}

InitArgs ==
    /\ jit = NewModule
    /\ \E iterset \in IterSets, region \in Regions, args \in SeqsUpTo(ArgKinds, MaxArgs) :
          prog = [n |-> 0, id |-> 0, iterset |-> iterset, args |-> args, region |-> region]
    /\ pre = <<>>
    /\ loops = <<>>
    /\ inner = <<>>
    /\ stmts = <<>>
    /\ fors = <<>>
    /\ decls = <<>>
    /\ sym = <<>>
    /\ self_block = 0
    /\ out_prods = <<>>
    /\ last = NoCall
    /\ prev = [pre |-> <<>>, loops |-> <<>>, inner |-> <<>>, stmts |-> <<>>, fors |-> <<>>,
               decls |-> <<>>, sym |-> <<>>, last |-> [op |-> "none", ret |-> "None"]]
    /\ calls = 0

\* JITModule.__init__: "self.set_argtypes(itspace.iterset, *args)".
SetArgtypes ==
    /\ calls < MaxJITCalls
    /\ calls' = calls + 1
    /\ UNCHANGED Optimiser
    /\ jit' = [jit EXCEPT !.obj = ("_argtypes" :> set_argtypes(prog.iterset, prog.args)) @@ @]
    /\ last' = [op |-> "set_argtypes", perm |-> <<>>, ret |-> "None", ext |-> <<>>,
                was |-> jit.compiles]

\* JITModule.generate_code: the wrapper's parameters, from wrapper_snippets.
GenerateCode ==
    /\ calls < MaxJITCalls
    /\ calls' = calls + 1
    /\ UNCHANGED Optimiser
    /\ jit' = [jit EXCEPT !.obj = ("_code_dict" :> wrapper_params(prog.iterset, prog.args)) @@ @]
    /\ last' = [op |-> "generate_code", perm |-> <<>>, ret |-> "None", ext |-> <<>>,
                was |-> jit.compiles]

\* ParLoop.prepare_arglist(iterset, *args), whose values _compute passes on as
\* "fun(part.offset, part.offset + part.size, *arglist)".
PrepareArglist ==
    /\ calls < MaxJITCalls
    /\ calls' = calls + 1
    /\ UNCHANGED <<Optimiser, jit>>
    /\ last' = [op |-> "prepare_arglist", perm |-> <<>>, ret |-> "None",
                ext |-> prepare_arglist(prog.iterset, prog.args, prog.region),
                was |-> jit.compiles]

NextArgs ==
    \/ SetArgtypes
    \/ GenerateCode
    \/ PrepareArglist

SpecArgs == InitArgs /\ [][NextArgs]_vars

---------------------------------------------------------------------------
\* The values a program computes.
\*
\* The value of an expression at an iteration point of the nest is a term over
\* the array elements it reads.  An index is written with the name of the
\* iteration variable when that variable has a value where the expression is
\* evaluated (B[i] at the point's i), and with "?" when it has none.  Two
\* statements compute the same values for all loop bounds and all array contents
\* exactly when their terms are equal.

RECURSIVE SeqProduct(_)
SeqProduct(q) == IF q = <<>> THEN 1 ELSE Head(q) * SeqProduct(Tail(q))

\* The children of the block a hoisted loop can be placed in: 0 is the
\* pre-header, p >= 1 the body of the loop at tree position p.
PlaceItems(T, p) == IF p = 0 THEN T.pre ELSE T.inner[p]

\* The hoisted loops of the tree T, as [p, x]: child x of place p.
HoistSites(T) ==
    {[p |-> p, x |-> x] : p \in 0..Len(T.loops), x \in 1..Len(T.pre) + 8} \cap
    {site \in [p : 0..Len(T.loops), x : 1..Len(T.pre) + 8] :
        /\ site.x <= Len(PlaceItems(T, site.p))
        /\ PlaceItems(T, site.p)[site.x].t = "For"}

HoistAt(T, site) == PlaceItems(T, site.p)[site.x]

\* The iteration variables that have a value inside the hoisted loop at site: those
\* of the loops of the nest around it and of its own wrapper loops.
BoundAt(T, site) ==
    {it_var(T.loops[q]) : q \in 1..site.p}
    \cup {it_var(h) : h \in Range(HoistAt(T, site).hdrs)}

\* How often the body of the hoisted loop at site runs in one run of the program.
EvalCount(T, site) ==
    SeqProduct([q \in 1..site.p |-> size(T.loops[q])])
    * SeqProduct([q \in 1..Len(HoistAt(T, site).hdrs) |-> size(HoistAt(T, site).hdrs[q])])

\* The number of distinct values of the variables of dep in the nest of T.
DepPoints(T, dep) ==
    LET ps == {q \in 1..Len(T.loops) : it_var(T.loops[q]) \in Range(dep)}
        pick == SelectIdx([q \in 1..Len(T.loops) |-> q \in ps], 1, Len(T.loops))
    IN SeqProduct([q \in 1..Len(pick) |-> size(T.loops[pick[q]])])

\* Whether site s runs before the place (p, x): in an enclosing block, or earlier
\* in the same block; hoisted code of the pre-header counts when it precedes the nest.
Before(T, s, p, x) ==
    /\ \/ s.p < p
       \/ s.p = p /\ s.x < x
    /\ s.p = 0 /\ p > 0 => s.x < NestIndex(T.pre)

\* The assignments to the temporary name that a read at (p, x) can see, and the
\* one it reads: that of the innermost block, and the last of it.
Writers(T, name, p, x) ==
    {w \in [site : HoistSites(T), y : 1..8] :
        /\ Before(T, w.site, p, x)
        /\ w.y <= Len(HoistAt(T, w.site).body)
        /\ HoistAt(T, w.site).body[w.y].lhs.name = name}

Later(u, w) ==
    \/ u.site.p > w.site.p
    \/ u.site.p = w.site.p /\ u.site.x > w.site.x
    \/ u.site = w.site /\ u.y >= w.y

RECURSIVE Val(_, _, _, _, _)
\* The value of expression e evaluated at place (p, x) of tree T where the
\* iteration variables B have a value.
Val(T, e, B, p, x) ==
    IF e.t = "Par" THEN Val(T, e.c, B, p, x)
    ELSE IF e.t = "Bin"
    THEN [op |-> e.op, l |-> Val(T, e.l, B, p, x), r |-> Val(T, e.r, B, p, x)]
    ELSE LET ws == Writers(T, e.name, p, x)
         IN IF ws = {}
            THEN [name |-> e.name,
                  idx |-> [q \in DOMAIN e.rank |-> IF e.rank[q] \in B THEN e.rank[q] ELSE "?"]]
            ELSE LET w == CHOOSE u \in ws : \A v \in ws : Later(u, v)
                     a == HoistAt(T, w.site).body[w.y]
                 IN IF a.lhs.rank # e.rank \/ ~(Range(e.rank) \subseteq B)
                    THEN [name |-> e.name, idx |-> <<"?">>]
                    ELSE Val(T, a.rhs, B \cap BoundAt(T, w.site), w.site.p, w.site.x)

Tree == [pre |-> pre, loops |-> loops, inner |-> inner]

PrevTree == [pre |-> prev.pre, loops |-> prev.loops, inner |-> prev.inner]

NestVars(T) == {it_var(T.loops[q]) : q \in 1..Len(T.loops)}

\* The value statement x of the innermost block assigns at an iteration point.
StmtVal(T, block, x) == Val(T, block[x].rhs, NestVars(T), Len(T.loops) + 1, 1)

---------------------------------------------------------------------------
\* Properties.

\* The nest was perfect when the last call was made: nothing had been spliced
\* into a loop body.
PerfectBefore == \A p \in DOMAIN prev.inner : prev.inner[p] = <<>>

FirstLicm == last.op = "licm" /\ PerfectBefore /\ prev.pre = InitPre

\* C1: on a perfect nest licm() completes, every statement of the rewritten
\* program assigns the value the original statement assigned, and each hoisted
\* loop body runs at most once per distinct value of the variables of its
\* dependency set.
C1_LicmPreservesValues ==
    FirstLicm =>
        /\ last.ret = "None"
        /\ \A x \in DOMAIN stmts :
              /\ stmts[x].lhs = prev.stmts[x].lhs
              /\ StmtVal(Tree, stmts, x) = StmtVal(PrevTree, prev.stmts, x)
        /\ \A site \in HoistSites(Tree) :
              EvalCount(Tree, site) <= DepPoints(Tree, HoistAt(Tree, site).dep)

\* The last call was interchange(perm) with a bijection over the indices of the
\* tracked loops of a perfect nest.
BijectiveInterchange ==
    /\ last.op = "interchange"
    /\ PerfectBefore
    /\ IsBijection(last.perm, Len(prev.fors))

HeaderOf(h) == [init |-> h.init, cond |-> h.cond, incr |-> h.incr, pragma |-> h.pragma]

C3_NonBijectionChangesNothing ==
    last.op = "interchange" /\ ~IsBijection(last.perm, Len(prev.fors)) =>
        loops = prev.loops /\ fors = prev.fors

\* C4: a call of interchange that rejects its perm reports it: what the caller
\* gets back differs from what a successful interchange gives, which is None.
C4_RejectionReported ==
    last.op = "interchange" /\ ~PermLegal(last.perm) => last.ret # "None"

\* C5: after interchange(perm) with a bijection, the header of the loop that was
\* at index i is at tree position perm[i], as the docstring says.
C5_LoopMovesToPerm ==
    BijectiveInterchange =>
        \A i \in 1..Len(prev.fors) :
            HeaderOf(loops[last.perm[i] + 1]) = HeaderOf(prev.loops[prev.fors[i]])

\* C6: after a successful interchange the tracked loop list has as many entries
\* as before, the live For nodes of the nest in tree order.
C6_TrackedListIsNest ==
    last.op = "interchange" /\ IsBijection(last.perm, Len(prev.fors)) /\ last.ret = "None" =>
        /\ Len(fors) = Len(prev.fors)
        /\ fors = [p \in 1..Len(loops) |-> p]

\* C7: interchange with the identity permutation leaves every header and the
\* tracked loop list as they were.
C7_IdentityChangesNothing ==
    last.op = "interchange" /\ last.perm = Identity(Len(loops)) =>
        /\ \A p \in DOMAIN loops : HeaderOf(loops[p]) = HeaderOf(prev.loops[p])
        /\ fors = prev.fors

\* C8: interchange, whatever the perm, changes nothing but the headers of the
\* For nodes: the children of every loop body, the statements, the pre-header
\* and the bookkeeping tables are as before.
C8_OnlyHeadersChange ==
    last.op = "interchange" =>
        /\ inner = prev.inner
        /\ stmts = prev.stmts
        /\ pre = prev.pre
        /\ decls = prev.decls
        /\ sym = prev.sym

C8_Witness ==
    /\ last.op = "interchange"
    /\ loops # prev.loops
    /\ \E p \in DOMAIN inner : inner[p] # <<>>

\* C9: in a nest of the three loops i, j, k, code hoisted for the dependency set
\* {i} is outside the bodies of the j and k loops and runs at most once per
\* value of i.
C9_HoistedOutsideInnerLoops ==
    prog.n = 3 /\ last.op = "licm" /\ NestVars(Tree) = {"i", "j", "k"} =>
        \A site \in HoistSites(Tree) :
            HoistAt(Tree, site).dep = <<"i">> =>
                /\ \A q \in 1..site.p : it_var(loops[q]) = "i"
                /\ site.p = 0 => site.x < NestIndex(pre)
                /\ EvalCount(Tree, site) <= DepPoints(Tree, <<"i">>)

C9_Witness ==
    /\ prog.n = 3
    /\ last.op = "licm"
    /\ NestVars(Tree) = {"i", "j", "k"}
    /\ \E site \in HoistSites(Tree) :
          /\ HoistAt(Tree, site).dep = <<"i">>
          /\ site.p = 0
          /\ EvalCount(Tree, site) = 2

\* The nest of C10: for i: for j: A[i][j] = B[i]*C[j] + D[i].
IsC10Nest ==
    /\ prog = [n |-> 2, id |-> 1]
    /\ last.op = "licm"
    /\ it_var(prev.loops[1]) = "i" /\ it_var(prev.loops[2]) = "j"
    /\ prev.stmts = ProgStmts(2, 1)

RECURSIVE Reads(_, _)
\* Whether expression e reads the symbol name.
Reads(e, name) ==
    IF e.t = "Sym" THEN e.name = name
    ELSE IF e.t = "Par" THEN Reads(e.c, name)
    ELSE Reads(e.l, name) \/ Reads(e.r, name)

\* C10 as claimed: licm() hoists B[i] and D[i] into an i-indexed temporary
\* computation placed before the j loop and the statement reads the temporaries.
C10_OperandsHoisted ==
    IsC10Nest /\ last.ret = "None" =>
        /\ \E site \in HoistSites(Tree) : HoistAt(Tree, site).dep = <<"i">>
        /\ ~Reads(stmts[1].rhs, "B") /\ ~Reads(stmts[1].rhs, "D")

\* C10 as amended: B[i], C[j] and D[i] are bare symbols, which the analysis never
\* registers: licm() forms no group for this nest, inserts no temporary and leaves
\* the statement, the tree and the bookkeeping tables as they were.
C10_NothingHoisted ==
    IsC10Nest =>
        /\ AllKeys = {}
        /\ HoistSites(Tree) = {}
        /\ stmts = prev.stmts /\ pre = prev.pre /\ inner = prev.inner
        /\ sym = prev.sym /\ decls = prev.decls
        /\ last.ext = <<>>

C10_Witness == IsC10Nest /\ last.ret = "None" /\ Reads(stmts[1].rhs, "B")

\* The assignments of the hoisted loops of the tree T, and the temporaries they
\* assign.
HoistedAssigns(T) ==
    UNION {Range(HoistAt(T, site).body) : site \in HoistSites(T)}

TempNames(T) == {a.lhs.name : a \in HoistedAssigns(T)}

\* How many hoisted loops of T hold the assignment a.
AssignCount(T, a) ==
    Cardinality({w \in [site : HoistSites(T), y : 1..8] :
                    /\ w.y <= Len(HoistAt(T, w.site).body)
                    /\ HoistAt(T, w.site).body[w.y] = a})

\* The last call was licm() on an optimiser whose previous call was a licm()
\* that completed.
SecondLicm == last.op = "licm" /\ prev.last.op = "licm" /\ prev.last.ret = "None"

\* C11: a licm() that follows a completed licm() inserts no assignment whose
\* value expression reads a temporary hoisted before, and every statement
\* assigns the value it assigned before the call.
C11_SecondLicmChangesNothing ==
    SecondLicm =>
        /\ \A a \in HoistedAssigns(Tree) :
              AssignCount(Tree, a) > AssignCount(PrevTree, a) =>
                  \A nm \in TempNames(PrevTree) : ~Reads(a.rhs, nm)
        /\ \A x \in DOMAIN stmts :
              StmtVal(Tree, stmts, x) = StmtVal(PrevTree, prev.stmts, x)

\* The statements of a block that licm() analyses.
Analysed(block) == {x \in DOMAIN block : block[x].t \in {"Assign", "Incr"}}

\* C12: in a call of licm() that reaches the analysis, no expression registered
\* in a group reads a symbol written in the nest body, and no assignment the call
\* inserts reads one.
C12_HoistedIsReadOnly ==
    last.op = "licm" /\ last.ret # "NameError" =>
        /\ \A x \in Analysed(prev.stmts) :
              \A r \in Range(expr_dep(prev.stmts[x], prev.stmts)) :
                  \A w \in written_vars(prev.stmts) :
                      ~Reads(NodeAt(prev.stmts[x].rhs, r.path), w)
        /\ \A a \in HoistedAssigns(Tree) :
              AssignCount(Tree, a) > AssignCount(PrevTree, a) =>
                  \A w \in written_vars(prev.stmts) : ~Reads(a.rhs, w)

\* The optimiser has just been constructed.
Constructed == last.op = "init" /\ last.ret = "None"

\* C13: after construction on a perfect nest of depth n the tracked loop list is
\* the n For nodes of the nest, each once, outermost first, and the recorded
\* block is the statement block of the innermost loop.
C13_ExplorerTracksNest ==
    Constructed =>
        /\ fors = [p \in 1..Len(loops) |-> p]
        /\ self_block = Len(loops)

C13_Witness ==
    /\ Constructed
    /\ fors = <<1, 2, 3>>
    /\ self_block = 3

NoDuplicates(q) == \A x, y \in DOMAIN q : x # y => q[x] # q[y]

RECURSIVE RankedNames(_)
\* The names of the symbols with a nonempty rank that the node refers to.
RankedNames(node) ==
    IF node.t = "Sym" THEN (IF node.rank # <<>> THEN {node.name} ELSE {})
    ELSE IF node.t = "Par" THEN RankedNames(node.c)
    ELSE IF node.t = "Bin" THEN RankedNames(node.l) \cup RankedNames(node.r)
    ELSE IF node.t \in {"Assign", "Incr"} THEN RankedNames(node.lhs) \cup RankedNames(node.rhs)
    ELSE {}

\* C14: the symbol list never holds a name twice, and at construction it holds
\* exactly the names of the symbols with nonempty rank the nest refers to.
C14_SymbolListIsSet ==
    /\ NoDuplicates(sym)
    /\ calls = 0 => Range(sym) = UNION {RankedNames(stmts[x]) : x \in DOMAIN stmts}

\* A well-formed directive: <word> pyop2 outerproduct(v1,v2).
WellFormed(a) ==
    a.tokens = 3 /\ a.ns = pyop2 /\ a.opt = outerproduct /\ a.paren /\ Len(a.args) = 2

\* C15: for a statement annotated <word> pyop2 outerproduct(v1,v2) the explorer
\* records the operand names v1 and v2, in full, with the statement's parent.
C15_OperandNamesRecorded ==
    last.op = "init" /\ WellFormed(prog.ann) =>
        /\ last.ret = "None"
        /\ stmts[1] \in DOMAIN out_prods
        /\ out_prods[stmts[1]] = [ops |-> prog.ann.args,
                                  parent |-> [t |-> "Block", pos |-> Len(loops)]]

\* The annotations that are no well-formed directive: fewer than three tokens,
\* another namespace, another optimisation name, or an outerproduct with
\* arguments missing.
IllFormed(a) ==
    \/ a.tokens < 3
    \/ a.ns # pyop2
    \/ a.opt # outerproduct
    \/ a.opt = outerproduct /\ (~a.paren \/ Len(a.args) < 2)

\* C16: on an ill-formed annotation the exploration completes, records no outer
\* product and gives the loop list, declaration table and symbol list of the
\* nest without the annotation.
C16_IllFormedIgnored ==
    last.op = "init" /\ IllFormed(prog.ann) =>
        /\ last.ret = "None"
        /\ out_prods = <<>>
        /\ fors = Explore(prog.n, prog.id).fors
        /\ decls = Explore(prog.n, prog.id).decls
        /\ sym = Explore(prog.n, prog.id).symbols

\* The loops the last call put into the pre-header, in the order of insertion:
\* licm() inserts at the position of the nest, so they stand, in that order,
\* between what was before the nest and the nest.
NewPreLoops ==
    SelectSeq(SubSeq(pre, NestIndex(prev.pre), NestIndex(pre) - 1), LAMBDA it : it.t = "For")

\* The loops the last call put into the bodies of the loops of the nest.
NewInnerLoops ==
    {site \in HoistSites(Tree) :
        site.p > 0 /\ site.x <= Len(inner[site.p]) - Len(prev.inner[site.p])}

\* C17: a licm() that completes returns the loops it inserted into the
\* pre-header, outermost wrapper loop of each group, in insertion order, and
\* none of the loops it inserted inside the nest.
C17_ReturnsPreHeaderLoops ==
    last.op = "licm" /\ last.ret = "None" =>
        /\ SubSeq(pre, 1, NestIndex(prev.pre) - 1) = SubSeq(prev.pre, 1, NestIndex(prev.pre) - 1)
        /\ last.ext = NewPreLoops
        /\ \A x \in DOMAIN last.ext :
              /\ last.ext[x].t = "For"
              /\ it_var(last.ext[x].hdrs[1]) \in Range(last.ext[x].dep)
        /\ \A site \in NewInnerLoops : HoistAt(Tree, site) \notin Range(last.ext)

C17_Witness ==
    /\ last.op = "licm" /\ last.ret = "None"
    /\ Len(last.ext) = 1
    /\ NewInnerLoops # {}

\* C18: across a call of licm() every entry of the declaration table stays and
\* maps to the declaration it mapped to, and the symbol list before the call is
\* a prefix of the symbol list after it.
C18_TablesAppendOnly ==
    last.op = "licm" =>
        /\ \A nm \in DOMAIN prev.decls : nm \in DOMAIN decls /\ decls[nm] = prev.decls[nm]
        /\ Len(sym) >= Len(prev.sym)
        /\ SubSeq(sym, 1, Len(prev.sym)) = prev.sym

\* C19: once compile() has completed on a module, the module holds none of
\* _args, _kernel and _itspace, and a call of compile() on it raises
\* RuntimeError and compiles nothing.
C19_CompiledModuleHoldsNoArgs ==
    /\ jit.compiles >= 1 =>
          \A name \in {"_args", "_kernel", "_itspace"} : ~hasattr(jit.obj, name)
    /\ last.op = "compile" /\ last.was >= 1 =>
          last.ret = "RuntimeError" /\ jit.compiles = last.was

RECURSIVE DepSet(_)
\* The union of the dependency sets of the symbols that occur in expression e.
DepSet(e) ==
    IF e.t = "Sym" THEN Range(e.loop_dep)
    ELSE IF e.t = "Par" THEN DepSet(e.c)
    ELSE DepSet(e.l) \cup DepSet(e.r)

\* C20: in a call of licm() that reaches the analysis, every expression
\* registered under a key has that key as its dependency set: the union of the
\* dependency sets of its symbols is the set of the variables of the key.
C20_KeyIsDependencySet ==
    last.op = "licm" /\ last.ret # "NameError" =>
        \A x \in Analysed(prev.stmts) :
            \A r \in Range(expr_dep(prev.stmts[x], prev.stmts)) :
                DepSet(NodeAt(prev.stmts[x].rhs, r.path)) = Range(r.key)

RECURSIVE Paths(_)
\* The paths of the nodes of expression e.
Paths(e) ==
    IF e.t = "Sym" THEN {<<>>}
    ELSE IF e.t = "Par" THEN {<<>>} \cup {<<0>> \o q : q \in Paths(e.c)}
    ELSE {<<>>} \cup {<<0>> \o q : q \in Paths(e.l)} \cup {<<1>> \o q : q \in Paths(e.r)}

\* The binary nodes of expression e.
BinPaths(e) == {q \in Paths(e) : NodeAt(e, q).t = "Bin"}

\* C21: in a call of licm() that reaches the analysis, for a binary node whose
\* children come back with dependences of the same variables, in whatever
\* order, the computation returns those variables with the invariant flag true
\* and registers neither child.
C21_SameVariablesIsInvariant ==
    last.op = "licm" /\ last.ret # "NameError" =>
        \A x \in Analysed(prev.stmts) :
            \A q \in BinPaths(prev.stmts[x].rhs) :
                LET e == prev.stmts[x].rhs
                    w == written_vars(prev.stmts)
                    L == extract_const(e, Append(q, 0), w)
                    R == extract_const(e, Append(q, 1), w)
                    N == extract_const(e, q, w)
                IN Range(L.dep) = Range(R.dep) =>
                      /\ Range(N.dep) = Range(L.dep)
                      /\ N.inv
                      /\ \A r \in Range(N.reg) : r.path \notin {Append(q, 0), Append(q, 1)}

\* The declaration licm() made for assignment y of the hoisted loop at site: the
\* declarations of a group stand right before its loop, in the order of the
\* assignments.
DeclOf(T, site, y) ==
    PlaceItems(T, site.p)[site.x - Len(HoistAt(T, site).body) + y - 1]

\* C22: after licm(), for every temporary of a hoisted loop, the dimension that
\* is subscripted by the variable of a wrapper loop is declared with the trip
\* count of that loop, so the subscripts stay below the declared size.
C22_TemporarySizedByWrappers ==
    last.op = "licm" =>
        \A site \in HoistSites(Tree) :
            \A y \in DOMAIN HoistAt(Tree, site).body :
                LET a == HoistAt(Tree, site).body[y]
                    d == DeclOf(Tree, site, y)
                IN /\ d.t = "Decl" /\ d.name = a.lhs.name
                   /\ Len(d.rank) = Len(HoistAt(Tree, site).hdrs)
                   /\ Len(a.lhs.rank) = Len(d.rank)
                   /\ \A k \in DOMAIN a.lhs.rank :
                         \A h \in Range(HoistAt(Tree, site).hdrs) :
                             it_var(h) = a.lhs.rank[k] => d.rank[k] = size(h)

\* The hoisted loops the last call put into the pre-header.
NewPreSites ==
    {site \in HoistSites(Tree) :
        site.p = 0 /\ site.x >= NestIndex(prev.pre) /\ site.x < NestIndex(pre)}

NewSites == NewPreSites \cup NewInnerLoops

\* Whether the tracked loop of index y is the loop of the last variable of dep or
\* a loop whose variable is not in dep: the scan for the insertion point ends at
\* the first such loop.
EndsScan(dep, y) ==
    \/ it_var(loops[fors[y]]) = dep[Len(dep)]
    \/ it_var(loops[fors[y]]) \notin Range(dep)

\* The wrapper loops of a hoisted loop, innermost first, without the pragma.
WrappersOf(inv_for) ==
    [k \in 1..Len(inv_for.hdrs) |->
        [init |-> Reverse(inv_for.hdrs)[k].init, cond |-> Reverse(inv_for.hdrs)[k].cond,
         incr |-> Reverse(inv_for.hdrs)[k].incr]]

TrackedHeader(y) ==
    [init |-> loops[fors[y]].init, cond |-> loops[fors[y]].cond, incr |-> loops[fors[y]].incr]

\* Where the loop hoisted at site stands and which loops wrap it: in the
\* pre-header before the nest, wrapped by the tracked loops whose variable is in
\* its dependency set, when the first tracked loop ends the scan; else at the
\* front of the body of the last loop before the one that ends the scan, wrapped
\* by the loop of the last variable of the dependency set alone.
PlacedAsClaimed(site) ==
    LET inv_for == HoistAt(Tree, site)
        dep == inv_for.dep
        in_dep == ForsWhere(Range(dep))
    IN IF EndsScan(dep, 1)
       THEN /\ site \in NewPreSites
            /\ Cardinality(NewSites) = 1 => site.x = NestIndex(pre) - 1
            /\ Len(inv_for.hdrs) = Len(in_dep)
            /\ {WrappersOf(inv_for)[k] : k \in DOMAIN inv_for.hdrs}
                  = {TrackedHeader(in_dep[k]) : k \in DOMAIN in_dep}
       ELSE /\ site \in NewInnerLoops
            /\ Cardinality(NewSites) = 1 => site.x = Len(HoistAt(Tree, site).body) + 1
            /\ \E y \in DOMAIN fors :
                  /\ fors[y] = site.p
                  /\ \A z \in 1..y : ~EndsScan(dep, z)
                  /\ y < Len(fors) /\ EndsScan(dep, y + 1)
            /\ WrappersOf(inv_for) = <<TrackedHeader(fast_for(dep)[1])>>
            /\ it_var(inv_for.hdrs[1]) = dep[Len(dep)]

\* C23 as claimed: every loop a completed licm() hoisted is placed as above, and
\* in the pre-header the loop of the first variable of the dependency set is the
\* innermost wrapper.
C23_FirstOfDepInnermost ==
    last.op = "licm" /\ last.ret = "None" =>
        \A site \in NewSites :
            /\ PlacedAsClaimed(site)
            /\ site.p = 0 =>
                  it_var(WrappersOf(HoistAt(Tree, site))[1]) = HoistAt(Tree, site).dep[1]

\* C23 as amended: every loop a completed licm() hoisted is placed as above, and
\* in the pre-header the wrappers are nested in the reverse of the order of the
\* tracked loop list: the first tracked loop whose variable is in the dependency
\* set is the innermost wrapper.
C23_FirstTrackedInnermost ==
    last.op = "licm" /\ last.ret = "None" =>
        \A site \in NewSites :
            /\ PlacedAsClaimed(site)
            /\ site.p = 0 =>
                  LET in_dep == ForsWhere(Range(HoistAt(Tree, site).dep))
                  IN WrappersOf(HoistAt(Tree, site))
                        = [k \in DOMAIN in_dep |-> TrackedHeader(in_dep[k])]

C23_Witness ==
    /\ last.op = "licm" /\ last.ret = "None"
    /\ \E site \in NewPreSites :
          /\ Len(HoistAt(Tree, site).hdrs) = 2
          /\ it_var(WrappersOf(HoistAt(Tree, site))[1]) # HoistAt(Tree, site).dep[1]
    /\ prev.last.op = "none"

RECURSIVE HasPath(_, _)
\* Whether expression e has a node at path.
HasPath(e, path) ==
    IF path = <<>> THEN TRUE
    ELSE IF e.t = "Sym" THEN FALSE
    ELSE IF e.t = "Par" THEN Head(path) = 0 /\ HasPath(e.c, Tail(path))
    ELSE HasPath(IF Head(path) = 0 THEN e.l ELSE e.r, Tail(path))

\* Whether path q is path p or lies below it.
AtOrBelow(q, p) == Len(q) >= Len(p) /\ SubSeq(q, 1, Len(p)) = p

\* The node without its children.
Shallow(node) ==
    IF node.t = "Sym" THEN node
    ELSE IF node.t = "Par" THEN [t |-> "Par"]
    ELSE [t |-> "Bin", op |-> node.op]

\* C24: after a licm() that completes, every expression e_n of a group of a
\* statement is replaced, where it stood in the statement's value expression, by
\* a reference to temporary n: the target of the assignment from e_n in the loop
\* hoisted for the group, indexed by the variables of its wrapper loops; and
\* every node of the value expression outside the e_n is as it was.
C24_GroupReplacedByTemporaries ==
    last.op = "licm" /\ last.ret = "None" =>
        \A x \in Analysed(prev.stmts) :
            LET old == prev.stmts[x].rhs
                new == stmts[x].rhs
                reg == expr_dep(prev.stmts[x], prev.stmts)
            IN /\ \A r \in Range(reg) :
                     /\ HasPath(new, r.path)
                     /\ \E site \in NewSites :
                           \E y \in DOMAIN HoistAt(Tree, site).body :
                               LET a == HoistAt(Tree, site).body[y]
                               IN /\ HoistAt(Tree, site).dep = r.key
                                  /\ Group(reg, r.key)[y] = r
                                  /\ a.rhs = NodeAt(old, r.path)
                                  /\ NodeAt(new, r.path) = a.lhs
                                  /\ NodeAt(new, r.path).rank
                                        = [k \in DOMAIN HoistAt(Tree, site).hdrs |->
                                              it_var(HoistAt(Tree, site).hdrs[k])]
               /\ \A q \in Paths(old) :
                     (\A r \in Range(reg) : ~AtOrBelow(q, r.path)) =>
                         HasPath(new, q) /\ Shallow(NodeAt(new, q)) = Shallow(NodeAt(old, q))

\* Whether the items of new are the splices of whole groups: the declarations
\* of a group and then its loop, one declaration per assignment of the loop.
RECURSIVE WholeGroups(_)
WholeGroups(new) ==
    IF new = <<>> THEN TRUE
    ELSE \E m \in 2..Len(new) :
            /\ new[m].t = "For"
            /\ Len(new[m].body) = m - 1
            /\ \A y \in 1..(m - 1) :
                  new[y].t = "Decl" /\ new[y].name = new[m].body[y].lhs.name
            /\ WholeGroups(SubSeq(new, m + 1, Len(new)))

\* Whether block now is block before with whole groups spliced in at offset ofs.
SplicedAt(before, now, ofs) ==
    /\ Len(now) >= Len(before)
    /\ SubSeq(now, 1, ofs) = SubSeq(before, 1, ofs)
    /\ SubSeq(now, Len(now) - (Len(before) - ofs) + 1, Len(now))
          = SubSeq(before, ofs + 1, Len(before))
    /\ WholeGroups(SubSeq(now, ofs + 1, Len(now) - (Len(before) - ofs)))

\* C25: a call of licm(), however it ends, leaves in the pre-header and in every
\* loop body the children that were there, once each and in their order, with
\* the new declarations and loops spliced in between as whole groups: in the
\* pre-header at the position of the nest, in a loop body at the front; the nest
\* stays a child of the pre-header and every hoisted loop of the pre-header
\* stands before it.
C25_SpliceKeepsChildren ==
    /\ Cardinality({x \in DOMAIN pre : pre[x].t = "Nest"}) = 1
    /\ \A x \in DOMAIN pre : pre[x].t = "For" => x < NestIndex(pre)
    /\ last.op = "licm" =>
          /\ SplicedAt(prev.pre, pre, NestIndex(prev.pre) - 1)
          /\ \A p \in DOMAIN inner : SplicedAt(prev.inner[p], inner[p], 0)

C25_Witness ==
    /\ last.op = "licm"
    /\ Cardinality(NewPreSites) >= 2
    /\ Len(pre) >= Len(prev.pre) + 4

\* C26: after a call of licm(), every iteration variable that an expression
\* hoisted by the call reads has a value where the assignment stands: it is the
\* variable of a loop of the nest around the insertion point or of a wrapper loop
\* of the assignment.
C26_HoistedVariablesBound ==
    last.op = "licm" =>
        \A site \in NewSites :
            \A y \in DOMAIN HoistAt(Tree, site).body :
                DepSet(HoistAt(Tree, site).body[y].rhs) \subseteq BoundAt(Tree, site)

\* The keys of the groups of the statements a call analysed.
KeysOf(block) ==
    UNION {{r.key : r \in Range(expr_dep(block[x], block))} : x \in Analysed(block)}

\* C27: in a call of licm() that reaches the analysis, every group has a
\* nonempty key whose last variable is the variable of a tracked loop, some
\* tracked loop has a variable the key does not name, and the call does not fail
\* looking up a placement loop.
C27_PlacementLoopsExist ==
    last.op = "licm" /\ last.ret # "NameError" =>
        /\ \A key \in KeysOf(prev.stmts) :
              /\ key # <<>>
              /\ key[Len(key)] \in ForVars
              /\ ForVars \ Range(key) # {}
        /\ last.ret # "IndexError"

\* The temporaries of the tree T: assignment y of the hoisted loop at site.
Temporaries(T) ==
    {w \in [site : HoistSites(T), y : 1..8] : w.y <= Len(HoistAt(T, w.site).body)}

TempName(T, w) == HoistAt(T, w.site).body[w.y].lhs.name

\* C28: no two temporaries that calls of licm() created have the same name, be
\* they of one group, of two groups of a statement, of two statements or of two
\* calls.
C28_TemporaryNamesDistinct ==
    \A w, u \in Temporaries(Tree) : w # u => TempName(Tree, w) # TempName(Tree, u)

\* The two calls made on the optimiser were interchanges, the first of which
\* completed.
TwoInterchanges ==
    /\ calls = 2
    /\ last.op = "interchange"
    /\ prev.last.op = "interchange" /\ prev.last.ret = "None"

\* The permutation the first of the two calls applied: the one that takes the
\* headers of the nest as constructed to the headers the second call found.
FirstPerm ==
    [k \in 1..prog.n |->
        (CHOOSE x \in 1..prog.n :
            HeaderOf(InitLoops(prog.n)[x]) = HeaderOf(prev.loops[k])) - 1]

\* The inverse of a bijection over the indices 0..n-1.
InversePerm(p) == [k \in DOMAIN p |-> (CHOOSE x \in DOMAIN p : p[x] = k - 1) - 1]

\* C29: on the nest as constructed, interchange(p) with a bijection p followed
\* by interchange(q) with q the inverse of p leaves at every tree position the
\* init, cond, incr and pragma the loop had before the two calls.
C29_InverseInterchangeRestores ==
    TwoInterchanges /\ IsBijection(FirstPerm, prog.n)
                    /\ (\A k \in 1..prog.n :
                           HeaderOf(prev.loops[k])
                              = HeaderOf(InitLoops(prog.n)[FirstPerm[k] + 1]))
                    /\ last.perm = InversePerm(FirstPerm) =>
        /\ last.ret = "None"
        /\ \A k \in 1..prog.n : HeaderOf(loops[k]) = HeaderOf(InitLoops(prog.n)[k])

C29_Witness ==
    /\ TwoInterchanges
    /\ prog.n = 3
    /\ FirstPerm = <<1, 2, 0>>
    /\ last.perm = <<2, 0, 1>>
    /\ it_var(prev.loops[1]) = "j" /\ it_var(prev.loops[2]) = "k" /\ it_var(prev.loops[3]) = "i"
    /\ it_var(loops[1]) = "i" /\ it_var(loops[2]) = "j" /\ it_var(loops[3]) = "k"

---------------------------------------------------------------------------
\* Argument lists of the wrapper call (SpecArgs).

\* A value of the argument list without the number it carries.
Slot(e) == [c |-> e.c, of |-> e.of]

\* The par_loop has declared its argument types, generated its wrapper and
\* prepared its argument list.
ReadyToCall ==
    /\ last.op = "prepare_arglist"
    /\ hasattr(jit.obj, "_argtypes")
    /\ hasattr(jit.obj, "_code_dict")

\* C30: the argument types the module declares to ctypes, the parameters the
\* generated wrapper declares and the values prepare_arglist marshals (after the
\* start and end of the part) are as many, in the same order: entry by entry they
\* have the same C type and stand for the same Dat, Map, Mat or subset indices.
C30_ArgumentListsAgree ==
    ReadyToCall =>
        LET argtypes == jit.obj["_argtypes"]
            params == jit.obj["_code_dict"]
            values == <<index_type, index_type>> \o [k \in DOMAIN last.ext |-> Slot(last.ext[k])]
        IN /\ Len(argtypes) = Len(params)
           /\ Len(argtypes) = 2 + Len(last.ext)
           /\ \A k \in DOMAIN argtypes \cap DOMAIN params : argtypes[k] = params[k]
           /\ \A k \in DOMAIN argtypes \cap DOMAIN values : argtypes[k] = values[k]

====
